---- MODULE Spec2Model ----
(***************************************************************************)
(* Model of the two ROS2 launch descriptors of the uwrobot model package:  *)
(*   launch/gazebo_launch.py  (simulation assembly)                        *)
(*   launch/rviz2_launch.py   (visualization assembly)                     *)
(* Each is one function, generate_launch_description(), that resolves      *)
(* package share directories through the ament index, reads the URDF file  *)
(* in text mode and returns an ordered list of launch actions.             *)
(*                                                                         *)
(* The state is the environment the functions read (ament index, file      *)
(* system, the externally supplied 'model' launch argument) and the log    *)
(* of the calls made under the current environment.                        *)
(* Paths are sequences of components; file contents are sequences of       *)
(* bytes; text is a sequence of code points.                               *)
(***************************************************************************)
EXTENDS Naturals, Sequences, FiniteSets, TLC

VARIABLES index, fs, modelArg, calls

vars == <<index, fs, modelArg, calls>>

\* ------------------------------------------------------------------ bounds
\* longest file content, in bytes
MaxLen == 2
\* most calls logged under one environment
MaxCalls == 3

\* ------------------------------------------------------------ environment
Packages == {"gazebo_ros", "uwrobot_description"}
Prefixes == {"/opt/ros/humble", "/ws/install"}
NotFound == "NotFound"
\* the locale encoding text-mode open() decodes with (UTF-8 on ROS 2 hosts)
encoding == "utf-8"
\* LF, CR, 'a', and 0xFF (a byte no UTF-8 text contains)
Bytes == {10, 13, 97, 255}
Contents == UNION {[1..n -> Bytes] : n \in 0..MaxLen}

Absent == [kind |-> "absent", bytes |-> <<>>]
Dir == [kind |-> "dir", bytes |-> <<>>]
File(b) == [kind |-> "file", bytes |-> b]
DefaultFile == File(<<97>>)
FileStates == {Absent, Dir} \cup {File(b) : b \in Contents}

NoOverride == <<>>
AltUrdf == <<"/tmp", "alt.urdf">>
AltFile == File(<<97, 97>>)

\* os.path.join(base, *parts) with relative parts
path_join(base, parts) == base \o parts

\* ament_index_python: <prefix>/share/<package>
ShareDir(prefix, pkg) == <<prefix, "share", pkg>>

UrdfAt(prefix) ==
    path_join(ShareDir(prefix, "uwrobot_description"), <<"urdf", "uwrobot.urdf">>)
WorldAt(prefix) ==
    path_join(ShareDir(prefix, "uwrobot_description"), <<"world", "empty.world">>)
RvizConfigAt(prefix) ==
    path_join(ShareDir(prefix, "uwrobot_description"), <<"resource", "resource.rviz">>)
GazeboLaunchFileAt(prefix) ==
    path_join(ShareDir(prefix, "gazebo_ros"), <<"launch", "gazebo.launch.py">>)

PackageFiles(pkg, prefix) ==
    IF pkg = "uwrobot_description"
    THEN {UrdfAt(prefix), WorldAt(prefix), RvizConfigAt(prefix)}
    ELSE {GazeboLaunchFileAt(prefix)}

UrdfPaths == {UrdfAt(p) : p \in Prefixes}
AllPaths ==
    UNION {PackageFiles(k, p) : k \in Packages, p \in Prefixes} \cup {AltUrdf}

\* ------------------------------------------------------- library semantics
Ok(v) == [ok |-> TRUE, val |-> v, err |-> "none"]
Err(e) == [ok |-> FALSE, val |-> <<>>, err |-> e]

\* Mutant: an unknown package falls back to the system prefix instead of raising.
get_package_share_directory_Fallback(idx, pkg) ==
    IF idx[pkg] = NotFound
    THEN Ok(ShareDir("/opt/ros/humble", pkg))
    ELSE Ok(ShareDir(idx[pkg], pkg))

\* get_package_share_directory: raises PackageNotFoundError for an unknown package
get_package_share_directory(idx, pkg) ==
    IF idx[pkg] = NotFound
    THEN Err("PackageNotFoundError")
    ELSE Ok(ShareDir(idx[pkg], pkg))

\* strict decoding in the locale's encoding: 0xFF is not UTF-8, bytes below
\* 128 are the code points of the same value; latin-1 would accept every byte
decodable(b, enc) ==
    enc = "utf-8" => \A i \in 1..Len(b) : b[i] < 128

\* Mutant: only "\r\n" is translated; a lone "\r" is kept.
RECURSIVE translate_newlines_CRLFOnly(_)
translate_newlines_CRLFOnly(s) ==
    IF s = <<>> THEN <<>>
    ELSE IF Head(s) = 13 /\ Len(s) >= 2 /\ s[2] = 10
         THEN <<10>> \o translate_newlines_CRLFOnly(SubSeq(s, 3, Len(s)))
         ELSE <<Head(s)>> \o translate_newlines_CRLFOnly(Tail(s))

\* text mode with newline=None: "\r\n" and "\r" are read as "\n"
RECURSIVE translate_newlines(_)
translate_newlines(s) ==
    IF s = <<>> THEN <<>>
    ELSE IF Head(s) = 13
         THEN IF Len(s) >= 2 /\ s[2] = 10
              THEN <<10>> \o translate_newlines(SubSeq(s, 3, Len(s)))
              ELSE <<10>> \o translate_newlines(Tail(s))
         ELSE <<Head(s)>> \o translate_newlines(Tail(s))

\* Mutant: a missing file is read as the empty string instead of raising.
open_read_Fallback(files, path, enc) ==
    LET st == IF path \in DOMAIN files THEN files[path] ELSE Absent IN
    IF st.kind = "absent" THEN Ok(<<>>)
    ELSE IF st.kind = "dir" THEN Err("IsADirectoryError")
    ELSE IF ~decodable(st.bytes, enc) THEN Err("UnicodeDecodeError")
    ELSE Ok(translate_newlines(st.bytes))

\* Mutant: the content is validated, and an empty document is rejected.
open_read_Validating(files, path, enc) ==
    LET st == IF path \in DOMAIN files THEN files[path] ELSE Absent IN
    IF st.kind = "absent" THEN Err("FileNotFoundError")
    ELSE IF st.kind = "dir" THEN Err("IsADirectoryError")
    ELSE IF ~decodable(st.bytes, enc) THEN Err("UnicodeDecodeError")
    ELSE IF st.bytes = <<>> THEN Err("ParseError")
    ELSE Ok(translate_newlines(st.bytes))

\* with open(path, 'r') as f: f.read()
open_read(files, path, enc) ==
    LET st == IF path \in DOMAIN files THEN files[path] ELSE Absent IN
    IF st.kind = "absent" THEN Err("FileNotFoundError")
    ELSE IF st.kind = "dir" THEN Err("IsADirectoryError")
    ELSE IF ~decodable(st.bytes, enc) THEN Err("UnicodeDecodeError")
    ELSE Ok(translate_newlines(st.bytes))

\* ---------------------------------------------------------- call outcomes
Returned(asm, actions, opened) ==
    [asm |-> asm, outcome |-> "returned", error |-> "none",
     actions |-> actions, opened |-> opened]
Raised(asm, e, opened) ==
    [asm |-> asm, outcome |-> "raised", error |-> e,
     actions |-> <<>>, opened |-> opened]

\* ------------------------------------------------------- gazebo_launch.py
gazebo_robot_state_publisher(robot_desc) ==
    [kind |-> "Node",
     package |-> "robot_state_publisher",
     executable |-> "robot_state_publisher",
     parameters |-> <<[robot_description |-> robot_desc, use_sim_time |-> TRUE]>>]

gazebo_include(pkg_gazebo, world_path) ==
    [kind |-> "IncludeLaunchDescription",
     source |-> path_join(pkg_gazebo, <<"launch", "gazebo.launch.py">>),
     launch_arguments |-> << <<"verbose", "true">>, <<"world", world_path>> >>]

spawn ==
    [kind |-> "Node",
     package |-> "gazebo_ros",
     executable |-> "spawn_entity.py",
     arguments |-> <<"-topic", "/robot_description", "-entity", "zh_bot",
                     "-x", "0", "-y", "0", "-z", "0.4">>,
     output |-> "screen"]

spawner(controller) ==
    [kind |-> "Node",
     package |-> "controller_manager",
     executable |-> "spawner",
     arguments |-> <<controller>>,
     output |-> "screen"]

\* Mutant: the velocity and steering spawners change places.
gazebo_actions_Reordered(pkg_gazebo, world_path, robot_desc) ==
    << gazebo_robot_state_publisher(robot_desc),
       gazebo_include(pkg_gazebo, world_path),
       spawn,
       spawner("joint_state_broadcaster"),
       spawner("steering_controller"),
       spawner("velocity_controller") >>

gazebo_actions(pkg_gazebo, world_path, robot_desc) ==
    << gazebo_robot_state_publisher(robot_desc),
       gazebo_include(pkg_gazebo, world_path),
       spawn,
       spawner("joint_state_broadcaster"),
       spawner("velocity_controller"),
       spawner("steering_controller") >>

\* Mutant: the world file is opened too, and must exist.
gazebo_body_ChecksWorld(pkg_gazebo, pkg_model, files, enc) ==
    LET world_path == path_join(pkg_model, <<"world", "empty.world">>)
        urdf_path == path_join(pkg_model, <<"urdf", "uwrobot.urdf">>)
        f == open_read(files, urdf_path, enc)
        w == open_read(files, world_path, enc)
    IN  IF ~f.ok THEN Raised("gazebo", f.err, <<urdf_path>>)
        ELSE IF ~w.ok THEN Raised("gazebo", w.err, <<urdf_path, world_path>>)
        ELSE Returned("gazebo", gazebo_actions(pkg_gazebo, world_path, f.val),
                      <<urdf_path, world_path>>)

\* Mutant: the world path is built from the Gazebo package.
gazebo_body_WorldFromGazebo(pkg_gazebo, pkg_model, files, enc) ==
    LET world_path == path_join(pkg_gazebo, <<"world", "empty.world">>)
        urdf_path == path_join(pkg_model, <<"urdf", "uwrobot.urdf">>)
        f == open_read(files, urdf_path, enc)
    IN  IF ~f.ok THEN Raised("gazebo", f.err, <<urdf_path>>)
        ELSE Returned("gazebo", gazebo_actions(pkg_gazebo, world_path, f.val),
                      <<urdf_path>>)

\* lines 13-79: everything after the two package lookups
gazebo_body(pkg_gazebo, pkg_model, files, enc) ==
    LET world_path == path_join(pkg_model, <<"world", "empty.world">>)
        urdf_path == path_join(pkg_model, <<"urdf", "uwrobot.urdf">>)
        f == open_read(files, urdf_path, enc)
    IN  IF ~f.ok THEN Raised("gazebo", f.err, <<urdf_path>>)
        ELSE Returned("gazebo", gazebo_actions(pkg_gazebo, world_path, f.val),
                      <<urdf_path>>)

gazebo_generate_launch_description(idx, files, enc) ==
    LET g == get_package_share_directory(idx, "gazebo_ros") IN
    IF ~g.ok THEN Raised("gazebo", g.err, <<>>) ELSE
    LET m == get_package_share_directory(idx, "uwrobot_description") IN
    IF ~m.ok THEN Raised("gazebo", m.err, <<>>) ELSE
    gazebo_body(g.val, m.val, files, enc)

\* -------------------------------------------------------- rviz2_launch.py
\* description is an opaque label (in the source: "absolute path of the URDF",
\* written in Chinese)
action_declare_arg_mode_path(model_path) ==
    [kind |-> "DeclareLaunchArgument",
     name |-> "model",
     default_value |-> model_path,
     description |-> "URDF absolute path"]

rviz_robot_state_publisher_node(robot_description) ==
    [kind |-> "Node",
     package |-> "robot_state_publisher",
     executable |-> "robot_state_publisher",
     parameters |-> <<[robot_description |-> robot_description]>>]

joint_state_publisher_node ==
    [kind |-> "Node",
     package |-> "joint_state_publisher",
     executable |-> "joint_state_publisher"]

rviz_node(rviz_config_file) ==
    [kind |-> "Node",
     package |-> "rviz2",
     executable |-> "rviz2",
     arguments |-> <<"-d", rviz_config_file>>]

\* Mutant: the two publishers change places.
rviz2_actions_Reordered(model_path, rviz_config_file, robot_description) ==
    << action_declare_arg_mode_path(model_path),
       rviz_robot_state_publisher_node(robot_description),
       joint_state_publisher_node,
       rviz_node(rviz_config_file) >>

rviz2_actions(model_path, rviz_config_file, robot_description) ==
    << action_declare_arg_mode_path(model_path),
       joint_state_publisher_node,
       rviz_robot_state_publisher_node(robot_description),
       rviz_node(rviz_config_file) >>

\* the 'model' argument is declared but its value is never read
rviz2_generate_launch_description(idx, files, enc, override) ==
    LET s == get_package_share_directory(idx, "uwrobot_description") IN
    IF ~s.ok THEN Raised("rviz2", s.err, <<>>) ELSE
    LET pkg_share == s.val
        model_path == path_join(pkg_share, <<"urdf", "uwrobot.urdf">>)
        rviz_config_file == path_join(pkg_share, <<"resource", "resource.rviz">>)
        f == open_read(files, model_path, enc)
    IN  IF ~f.ok THEN Raised("rviz2", f.err, <<model_path>>)
        ELSE Returned("rviz2", rviz2_actions(model_path, rviz_config_file, f.val),
                      <<model_path>>)

\* ------------------------------------------------------------ state machine
TypeOK ==
    /\ index \in [Packages -> Prefixes \cup {NotFound}]
    /\ fs \in [AllPaths -> FileStates]
    /\ modelArg \in {NoOverride, AltUrdf}
    /\ Len(calls) <= MaxCalls

Init ==
    /\ index = [k \in Packages |-> "/opt/ros/humble"]
    /\ fs = [p \in AllPaths |->
               IF p = AltUrdf THEN AltFile
               ELSE IF \E k \in Packages : p \in PackageFiles(k, "/opt/ros/humble")
                    THEN DefaultFile
                    ELSE Absent]
    /\ modelArg = NoOverride
    /\ calls = <<>>

\* Mutant: the action list is a module-level list that every call extends, so
\* a call returns the actions of the earlier calls too and they see its own.
GazeboLaunch_SharedList ==
    /\ Len(calls) < MaxCalls
    /\ LET r == gazebo_generate_launch_description(index, fs, encoding)
           shared(c) == IF c.asm = "gazebo" /\ c.outcome = "returned"
                        THEN [c EXCEPT !.actions = @ \o r.actions]
                        ELSE c
           earlier == {i \in 1..Len(calls) :
                          calls[i].asm = "gazebo" /\ calls[i].outcome = "returned"}
           mine == IF earlier = {} THEN r
                   ELSE [r EXCEPT !.actions =
                            calls[CHOOSE i \in earlier : TRUE].actions \o @]
       IN  calls' = Append([i \in 1..Len(calls) |-> shared(calls[i])], mine)
    /\ UNCHANGED <<index, fs, modelArg>>

\* ros2 launch uwrobot_description gazebo_launch.py
GazeboLaunch ==
    /\ Len(calls) < MaxCalls
    /\ calls' = Append(calls, gazebo_generate_launch_description(index, fs, encoding))
    /\ UNCHANGED <<index, fs, modelArg>>

\* ros2 launch uwrobot_description rviz2_launch.py [model:=...]
Rviz2Launch ==
    /\ Len(calls) < MaxCalls
    /\ calls' = Append(calls,
                       rviz2_generate_launch_description(index, fs, encoding, modelArg))
    /\ UNCHANGED <<index, fs, modelArg>>

\* environment: a package is installed under a prefix, with its files
InstallPackage ==
    \E k \in Packages, p \in Prefixes :
        /\ index[k] = NotFound
        /\ index' = [index EXCEPT ![k] = p]
        /\ fs' = [q \in AllPaths |-> IF q \in PackageFiles(k, p) THEN DefaultFile ELSE fs[q]]
        /\ calls' = <<>>
        /\ UNCHANGED modelArg

\* environment: a package is removed, with its files
UninstallPackage ==
    \E k \in Packages :
        /\ index[k] # NotFound
        /\ index' = [index EXCEPT ![k] = NotFound]
        /\ fs' = [q \in AllPaths |->
                    IF q \in PackageFiles(k, index[k]) THEN Absent ELSE fs[q]]
        /\ calls' = <<>>
        /\ UNCHANGED modelArg

\* environment: a file of an installed package is rewritten, removed or
\* replaced by a directory (any content for the URDF)
WriteFile ==
    \E k \in Packages :
        /\ index[k] # NotFound
        /\ \E q \in PackageFiles(k, index[k]) :
             \E st \in (IF q \in UrdfPaths THEN FileStates ELSE {Absent, DefaultFile}) :
                /\ st # fs[q]
                /\ fs' = [fs EXCEPT ![q] = st]
        /\ calls' = <<>>
        /\ UNCHANGED <<index, modelArg>>

\* environment: the user supplies or withdraws model:=<path>
SetModelArg ==
    \E v \in {NoOverride, AltUrdf} :
        /\ v # modelArg
        /\ modelArg' = v
        /\ calls' = <<>>
        /\ UNCHANGED <<index, fs>>

Next ==
    \/ GazeboLaunch
    \/ Rviz2Launch
    \/ InstallPackage
    \/ UninstallPackage
    \/ WriteFile
    \/ SetModelArg

Spec == Init /\ [][Next]_vars

\* ------------------------------------------------- vocabulary of the claims
UW == "uwrobot_description"
GZ == "gazebo_ros"
Needs(asm) == IF asm = "gazebo" THEN {GZ, UW} ELSE {UW}
Resolved(asm) == \A k \in Needs(asm) : index[k] # NotFound
\* the state of the file at <uwrobot_description share>/urdf/uwrobot.urdf
UrdfState == IF index[UW] = NotFound THEN Absent ELSE fs[UrdfAt(index[UW])]
UrdfExists == UrdfState.kind = "file"
UrdfDecodes == UrdfExists /\ decodable(UrdfState.bytes, encoding)
CallIds == 1..Len(calls)
GazeboCalls == {i \in CallIds : calls[i].asm = "gazebo"}
Rviz2Calls == {i \in CallIds : calls[i].asm = "rviz2"}
ReturnedCalls == {i \in CallIds : calls[i].outcome = "returned"}
\* position of the robot_state_publisher in each list
RspIndex(c) == IF c.asm = "gazebo" THEN 1 ELSE 3
RobotDescription(c) == c.actions[RspIndex(c)].parameters[1].robot_description

IsSpawner(a, controller) ==
    /\ a.kind = "Node"
    /\ a.package = "controller_manager"
    /\ a.executable = "spawner"
    /\ a.arguments = <<controller>>

GazeboOrder(a) ==
    /\ Len(a) = 6
    /\ a[1].kind = "Node" /\ a[1].package = "robot_state_publisher"
    /\ a[1].executable = "robot_state_publisher"
    /\ a[2].kind = "IncludeLaunchDescription"
    /\ a[3].kind = "Node" /\ a[3].package = "gazebo_ros"
    /\ a[3].executable = "spawn_entity.py"
    /\ IsSpawner(a[4], "joint_state_broadcaster")
    /\ IsSpawner(a[5], "velocity_controller")
    /\ IsSpawner(a[6], "steering_controller")

Rviz2Order(a) ==
    /\ Len(a) = 4
    /\ a[1].kind = "DeclareLaunchArgument" /\ a[1].name = "model"
    /\ a[2].kind = "Node" /\ a[2].package = "joint_state_publisher"
    /\ a[2].executable = "joint_state_publisher"
    /\ a[3].kind = "Node" /\ a[3].package = "robot_state_publisher"
    /\ a[3].executable = "robot_state_publisher"
    /\ a[4].kind = "Node" /\ a[4].package = "rviz2" /\ a[4].executable = "rviz2"

\* ---------------------------------------------------------------- C1
\* C1 (as stated): whenever both packages resolve and the URDF file exists, a
\* call of the simulation assembly returns the 6 actions in the declared order.
C1_AsStated ==
    \A i \in GazeboCalls :
        (Resolved("gazebo") /\ UrdfExists) =>
            (calls[i].outcome = "returned" /\ GazeboOrder(calls[i].actions))

\* C1 (amended): whenever both packages resolve and the URDF file exists and
\* decodes in the locale's encoding, a call of the simulation assembly returns
\* exactly 6 actions: robot_state_publisher, Gazebo include, spawn_entity, then
\* the spawners of joint_state_broadcaster, velocity_controller and
\* steering_controller, in that order.
C1_GazeboSixInOrder ==
    \A i \in GazeboCalls :
        (Resolved("gazebo") /\ UrdfDecodes) =>
            (calls[i].outcome = "returned" /\ GazeboOrder(calls[i].actions))

C1_Witness ==
    \E i \in GazeboCalls :
        /\ Resolved("gazebo") /\ UrdfDecodes
        /\ calls[i].outcome = "returned"
        /\ Len(calls[i].actions) = 6

\* ---------------------------------------------------------------- C2
\* C2 (as stated): whenever the model package resolves and the URDF file
\* exists, a call of the visualization assembly returns the 4 actions in the
\* declared order.
C2_AsStated ==
    \A i \in Rviz2Calls :
        (Resolved("rviz2") /\ UrdfExists) =>
            (calls[i].outcome = "returned" /\ Rviz2Order(calls[i].actions))

\* C2 (amended): whenever the model package resolves and the URDF file exists
\* and decodes in the locale's encoding, a call of the visualization assembly
\* returns exactly 4 actions: the 'model' argument declaration, the
\* joint_state_publisher, the robot_state_publisher, the rviz2 viewer, in that
\* order.
C2_Rviz2FourInOrder ==
    \A i \in Rviz2Calls :
        (Resolved("rviz2") /\ UrdfDecodes) =>
            (calls[i].outcome = "returned" /\ Rviz2Order(calls[i].actions))

C2_Witness ==
    \E i \in Rviz2Calls :
        /\ Resolved("rviz2") /\ UrdfDecodes
        /\ calls[i].outcome = "returned"
        /\ Len(calls[i].actions) = 4

\* ---------------------------------------------------------------- C3
\* The bytes of b that survive the reading: an LF that follows a CR is dropped.
KeptPositions(b) == {i \in 1..Len(b) : ~(b[i] = 10 /\ i > 1 /\ b[i - 1] = 13)}
NthKept(b, n) ==
    CHOOSE i \in KeptPositions(b) :
        Cardinality({j \in KeptPositions(b) : j <= i}) = n
\* the text of b with every CRLF and every lone CR replaced by one LF
NewlineNormalised(b) ==
    [n \in 1..Cardinality(KeptPositions(b)) |->
        IF b[NthKept(b, n)] = 13 THEN 10 ELSE b[NthKept(b, n)]]

\* C3 (as stated): in every returned list the robot_description parameter of the
\* robot_state_publisher equals the content of the URDF file byte for byte.
C3_AsStated ==
    \A i \in ReturnedCalls : RobotDescription(calls[i]) = UrdfState.bytes

\* C3 (amended): in every returned list the robot_description parameter of the
\* robot_state_publisher equals the decoded content of the URDF file with
\* every CRLF and every lone CR replaced by LF, and nothing else changed; it
\* equals the content byte for byte when the content holds no CR.
C3_DescriptionIsTextOfFile ==
    \A i \in ReturnedCalls :
        /\ RobotDescription(calls[i]) = NewlineNormalised(UrdfState.bytes)
        /\ (\A n \in 1..Len(UrdfState.bytes) : UrdfState.bytes[n] # 13)
              => RobotDescription(calls[i]) = UrdfState.bytes

C3_Witness ==
    \E i \in GazeboCalls, j \in Rviz2Calls :
        /\ {i, j} \subseteq ReturnedCalls
        /\ UrdfState.bytes = <<13, 97>>
        /\ RobotDescription(calls[i]) = <<10, 97>>
        /\ RobotDescription(calls[j]) = <<10, 97>>

\* ---------------------------------------------------------------- C4
\* C4: when the packages resolve and the URDF file is absent at the resolved
\* path, a call of either assembly raises FileNotFoundError to its caller and
\* returns no action list, not even a partial one.
C4_MissingUrdfFails ==
    \A i \in CallIds :
        (index[UW] # NotFound /\ UrdfState.kind = "absent") =>
            /\ calls[i].outcome = "raised"
            /\ calls[i].actions = <<>>
            /\ Resolved(calls[i].asm) => calls[i].error = "FileNotFoundError"

C4_Witness ==
    \E i \in GazeboCalls, j \in Rviz2Calls :
        /\ Resolved("gazebo") /\ UrdfState.kind = "absent"
        /\ calls[i].error = "FileNotFoundError"
        /\ calls[j].error = "FileNotFoundError"

\* ---------------------------------------------------------------- C5
\* the file the 'model' argument names: the override when one is supplied,
\* else the default <uwrobot_description share>/urdf/uwrobot.urdf
ModelArgFile == IF modelArg = NoOverride THEN UrdfState ELSE fs[modelArg]

\* C5: the URDF content the visualization assembly hands to the
\* robot_state_publisher is the content of the file at the overridden path
\* when an override of 'model' is supplied, and of the default path otherwise.
C5_OverrideIsRead ==
    \A i \in Rviz2Calls \cap ReturnedCalls :
        RobotDescription(calls[i]) = NewlineNormalised(ModelArgFile.bytes)

\* ---------------------------------------------------------------- C6
\* the error each failure mode raises, in the order the code meets them
ExpectedError(asm) ==
    IF ~Resolved(asm) THEN "PackageNotFoundError"
    ELSE IF UrdfState.kind = "absent" THEN "FileNotFoundError"
    ELSE IF UrdfState.kind = "dir" THEN "IsADirectoryError"
    ELSE IF ~UrdfDecodes THEN "UnicodeDecodeError"
    ELSE "none"

\* C6: every failure mode of either assembly reaches the caller as the error
\* of that failure, with no action list returned; nothing but the default URDF
\* path is ever tried, and a failed package resolution ends the call before
\* any file is opened.
C6_FailuresPropagate ==
    \A i \in CallIds :
        /\ calls[i].error = ExpectedError(calls[i].asm)
        /\ (calls[i].outcome = "raised") = (calls[i].error # "none")
        /\ calls[i].outcome = "raised" => calls[i].actions = <<>>
        /\ ~Resolved(calls[i].asm) => calls[i].opened = <<>>
        /\ \A n \in 1..Len(calls[i].opened) :
              index[UW] # NotFound /\ calls[i].opened[n] = UrdfAt(index[UW])

C6_Witness ==
    \E i \in GazeboCalls, j \in Rviz2Calls :
        /\ index[GZ] # NotFound /\ index[UW] = NotFound
        /\ calls[i].outcome = "raised" /\ calls[i].error = "PackageNotFoundError"
        /\ calls[j].outcome = "raised" /\ calls[j].error = "PackageNotFoundError"
        /\ calls[i].opened = <<>> /\ calls[j].opened = <<>>

\* ---------------------------------------------------------------- C7
\* a returned list with the robot_description value blanked
Blanked(c) ==
    [n \in 1..Len(c.actions) |->
        IF n = RspIndex(c)
        THEN [c.actions[n] EXCEPT !.parameters[1].robot_description = <<>>]
        ELSE c.actions[n]]
\* the list the layout alone determines, with the same value blanked
ShapeOf(asm) ==
    IF asm = "gazebo"
    THEN gazebo_actions(ShareDir(index[GZ], GZ), WorldAt(index[UW]), <<>>)
    ELSE rviz2_actions(UrdfAt(index[UW]), RvizConfigAt(index[UW]), <<>>)

\* C7 (as stated): for every content of the URDF file the assembly succeeds,
\* and everything in the returned list but the robot_description value is
\* fixed by the layout.
C7_AsStated ==
    \A i \in CallIds :
        (Resolved(calls[i].asm) /\ UrdfExists) =>
            (calls[i].outcome = "returned" /\ Blanked(calls[i]) = ShapeOf(calls[i].asm))

\* C7 (amended): for every content of the URDF file that decodes in the
\* locale's encoding (empty or malformed XML included) the assembly succeeds,
\* and the number, order and every field of the returned actions but the
\* robot_description value are fixed by the layout; a content that does not
\* decode raises UnicodeDecodeError.
C7_ContentIsOpaque ==
    \A i \in CallIds :
        (Resolved(calls[i].asm) /\ UrdfExists) =>
            IF UrdfDecodes
            THEN calls[i].outcome = "returned"
                 /\ Blanked(calls[i]) = ShapeOf(calls[i].asm)
            ELSE calls[i].error = "UnicodeDecodeError"

C7_Witness ==
    \E i \in GazeboCalls, j \in Rviz2Calls :
        /\ {i, j} \subseteq ReturnedCalls
        /\ UrdfState.bytes = <<>>
        /\ RobotDescription(calls[i]) = <<>>
        /\ Len(calls[i].actions) = 6 /\ Len(calls[j].actions) = 4

C9_WorldFromModelPackage ==
    \A i \in GazeboCalls \cap ReturnedCalls :
        LET inc == calls[i].actions[2] IN
        /\ inc.source = <<index[GZ], "share", "gazebo_ros", "launch", "gazebo.launch.py">>
        /\ inc.launch_arguments[1] = <<"verbose", "true">>
        /\ inc.launch_arguments[2] =
              <<"world", <<index[UW], "share", "uwrobot_description",
                           "world", "empty.world">> >>

C9_Witness ==
    \E i \in GazeboCalls \cap ReturnedCalls :
        /\ index[GZ] # index[UW]
        /\ calls[i].actions[2].launch_arguments[2][2][1] = index[UW]

====
